---- MODULE Spec2Model ----
(***************************************************************************)
(* LogosClient (src/src/types.ts): the capture / VAD state machine, the    *)
(* session status state machine and the socket event handlers.             *)
(*                                                                         *)
(* Time is counted in units of 100 ms (the VAD cadence).  Date.now() is    *)
(* not kept; the model keeps the differences the code computes from it:    *)
(* speechDuration = Date.now() - recordingStartTime (saturating at         *)
(* ElapsedCap) and the time each pending timer still has to run.           *)
(* Sizes of audio data are counted in units of 1000 bytes.                 *)
(*                                                                         *)
(* Every startListening() invocation that passes its guards takes a slot;  *)
(* the stream, recorder and sampling interval it creates carry the slot's  *)
(* number, so that this.mediaStream / this.mediaRecorder /                 *)
(* this.vadIntervalId are references (0 is null) that can be overwritten   *)
(* while the object they referred to lives on.                             *)
(***************************************************************************)
EXTENDS Integers, Sequences, FiniteSets, TLC

\* ---------------------------------------------------------------- bounds
MaxCalls == 2          \* startListening() invocations / capture objects alive
MaxSockets == 2        \* socket objects tracked
MaxTimers == 2         \* silence-timer objects alive
ElapsedCap == 4        \* saturation of Date.now() - recordingStartTime
BlobCap == 3           \* saturation of the accumulated audioChunks size

\* ------------------------------------------------------ program constants
MIN_SPEECH_DURATION == 4      \* 400 ms
MinBlobSize == 2              \* 2000 bytes
RestartDelay == 5             \* 500 ms
DefaultSensitivity == 5
DefaultNoiseFloor == 10
VadMargin == 15
VadHysteresis == 5
MinBaseThreshold == 5
MaxBaseThreshold == 35
SensitivityStep == 3
MinSensitivity == 1           \* VadConfig.sensitivity: "Sensitivity 1-10"
MaxSensitivity == 10

LogosStatus == {"DISCONNECTED", "CONNECTING", "IDLE", "LISTENING", "THINKING", "SPEAKING"}

Slots == 1..MaxCalls
SockIds == 1..MaxSockets
TimerIds == 1..MaxTimers

\* inputs
Energies == {0, 27, 40}                 \* average frequency magnitude of a tick
ChunkSizes == {0, 2, 3}                 \* e.data.size of the recorder's blob
TimeoutInputs == {3, 4}                 \* options.vad.timeout: below / at MIN_SPEECH_DURATION
SettingsInputs ==
    { [vadTimeout |-> 3],
      [vadTimeout |-> 4, vadSensitivity |-> DefaultSensitivity, vadAutoCalibrate |-> TRUE] }
StatusInputs == {"thinking", "idle", "speaking"}
\* for the thresholds: the documented sensitivities and one beyond each end
Sensitivities == (MinSensitivity - 1)..(MaxSensitivity + 1)
EnergyLevels == {0, 4, 5, 7, 10, 11, 20, 24, 25, 27, 30, 31, 40}
ThresholdSettings ==
    [vadSensitivity : Sensitivities, vadAutoCalibrate : BOOLEAN]

VARIABLES
    status,             \* this._status
    sockets,            \* socket objects: id -> "none" | "connecting" | "connected"
    socket,             \* this.socket (0 = null)
    vadConfig,          \* this.vadConfig
    audioContext,       \* this.audioContext: "null" | "running"
    analyser,           \* this.analyser # null
    call,               \* startListening() invocations: slot -> "free" | "acquiring"
    streams,            \* streams whose tracks are live
    mediaStream,        \* this.mediaStream (0 = null)
    recorders,          \* MediaRecorder objects: slot -> "inactive" | "recording" | "stopping"
    mediaRecorder,      \* this.mediaRecorder (0 = null)
    audioChunks,        \* total size of this.audioChunks
    intervals,          \* setInterval schedules not cleared
    vadIntervalId,      \* this.vadIntervalId (0 = null)
    timers,             \* pending silence timers: set of [id, remaining, length]
    silenceTimeout,     \* this.silenceTimeout (0 = null)
    voiceDetected,      \* this.voiceDetected
    speechDuration,     \* Date.now() - this.recordingStartTime, saturating
    restartTimers,      \* pending setTimeout(startListening, 500): remaining times
    pendingAudio,       \* handleRecordingStop continuations awaiting arrayBuffer()
    out,                \* what the last step emitted (events and wire messages)
    stopRequested       \* the host called stopListening() while no startListening() call
                        \* was waiting for the microphone, and not startListening() since

client == <<status, sockets, socket, vadConfig, audioContext, analyser, call, streams,
            mediaStream, recorders, mediaRecorder, audioChunks, intervals, vadIntervalId,
            timers, silenceTimeout, voiceDetected, speechDuration, restartTimers,
            pendingAudio>>
vars == <<client, out, stopRequested>>

\* ---------------------------------------------------------------- helpers
Min(a, b) == IF a < b THEN a ELSE b
Max(a, b) == IF a > b THEN a ELSE b

\* an emitted event (to = 0) or a message written to socket `to`
Ev(k, v) == [k |-> k, v |-> v, to |-> 0]
StatusEv(s) == Ev("status", s)
Wire(name, sock) == [k |-> "wire", v |-> name, to |-> sock]
\* console.warn of a call that returns at its guard
Warn(what) == Ev("warn", what)

\* get isConnected(): this.socket?.connected ?? false
isConnected == socket # 0 /\ sockets[socket] = "connected"

\* setStatus: the new status and what is emitted
setStatusAlways(cur, new) == [status |-> new, emitted |-> <<StatusEv(new)>>]
setStatus(cur, new) ==
    [status |-> new, emitted |-> IF cur # new THEN <<StatusEv(new)>> ELSE <<>>]

\* getVadThresholds
getVadThresholdsNoHysteresis(cfg, noiseFloor) ==
    IF ~cfg.autoCalibrate
    THEN LET baseThreshold == Max(MinBaseThreshold,
                                  MaxBaseThreshold - cfg.sensitivity * SensitivityStep)
         IN [silenceThreshold |-> baseThreshold,
             voiceThreshold |-> baseThreshold]
    ELSE [silenceThreshold |-> noiseFloor + VadMargin,
          voiceThreshold |-> noiseFloor + VadMargin + VadHysteresis]
getVadThresholds(cfg, noiseFloor) ==
    IF ~cfg.autoCalibrate
    THEN LET baseThreshold == Max(MinBaseThreshold,
                                  MaxBaseThreshold - cfg.sensitivity * SensitivityStep)
         IN [silenceThreshold |-> baseThreshold,
             voiceThreshold |-> baseThreshold + VadHysteresis]
    ELSE [silenceThreshold |-> noiseFloor + VadMargin,
          voiceThreshold |-> noiseFloor + VadMargin + VadHysteresis]

\* this.calibratedNoiseFloor ?? 10 : the field is never assigned
calibratedNoiseFloor == DefaultNoiseFloor

\* the two comparisons of detectVoiceActivity
energyClass(average, th) ==
    IF average > th.voiceThreshold THEN "voice"
    ELSE IF average < th.silenceThreshold THEN "silence"
    ELSE "between"

\* updateSettings on vadConfig
updateSettings(cfg, set) ==
    [sensitivity |-> IF "vadSensitivity" \in DOMAIN set THEN set.vadSensitivity
                     ELSE cfg.sensitivity,
     autoCalibrate |-> IF "vadAutoCalibrate" \in DOMAIN set THEN set.vadAutoCalibrate
                       ELSE cfg.autoCalibrate,
     timeout |-> IF "vadTimeout" \in DOMAIN set THEN set.vadTimeout ELSE cfg.timeout]

FreeSlot(s) ==
    /\ call[s] = "free"
    /\ s \notin streams
    /\ recorders[s] = "inactive"
    /\ s \notin intervals
FreeSlots == {s \in Slots : FreeSlot(s)}
FirstFree(S) == CHOOSE s \in S : \A t \in S : s <= t

\* the capture fields stopListening works on
Capture ==
    [vadIntervalId |-> vadIntervalId, intervals |-> intervals,
     silenceTimeout |-> silenceTimeout, timers |-> timers,
     mediaRecorder |-> mediaRecorder, recorders |-> recorders,
     mediaStream |-> mediaStream, streams |-> streams]

\* stopListening; `stops` and `released` count the recorder.stop() and
\* track.stop() rounds the call made
stopListeningKeepStream(c) ==
    LET rec == c.mediaRecorder # 0 /\ c.recorders[c.mediaRecorder] = "recording"
    IN [vadIntervalId |-> 0,
        intervals |-> c.intervals \ {c.vadIntervalId},
        silenceTimeout |-> 0,
        timers |-> {t \in c.timers : t.id # c.silenceTimeout},
        mediaRecorder |-> c.mediaRecorder,
        recorders |-> IF rec THEN [c.recorders EXCEPT ![c.mediaRecorder] = "stopping"]
                      ELSE c.recorders,
        mediaStream |-> c.mediaStream,
        streams |-> c.streams \ {c.mediaStream},
        stops |-> IF rec THEN 1 ELSE 0,
        released |-> IF c.mediaStream # 0 THEN 1 ELSE 0]
stopListening(c) ==
    LET rec == c.mediaRecorder # 0 /\ c.recorders[c.mediaRecorder] = "recording"
    IN [vadIntervalId |-> 0,
        intervals |-> c.intervals \ {c.vadIntervalId},
        silenceTimeout |-> 0,
        timers |-> {t \in c.timers : t.id # c.silenceTimeout},
        mediaRecorder |-> c.mediaRecorder,
        recorders |-> IF rec THEN [c.recorders EXCEPT ![c.mediaRecorder] = "stopping"]
                      ELSE c.recorders,
        mediaStream |-> 0,
        streams |-> c.streams \ {c.mediaStream},
        stops |-> IF rec THEN 1 ELSE 0,
        released |-> IF c.mediaStream # 0 THEN 1 ELSE 0]

SetCapture(r) ==
    /\ vadIntervalId' = r.vadIntervalId
    /\ intervals' = r.intervals
    /\ silenceTimeout' = r.silenceTimeout
    /\ timers' = r.timers
    /\ mediaRecorder' = r.mediaRecorder
    /\ recorders' = r.recorders
    /\ mediaStream' = r.mediaStream
    /\ streams' = r.streams

captureVars == <<vadIntervalId, intervals, silenceTimeout, timers, mediaRecorder,
                 recorders, mediaStream, streams>>
socketVars == <<sockets, socket>>
vadVars == <<voiceDetected, speechDuration>>
audioVars == <<audioContext, analyser>>

Init ==
    /\ status = "DISCONNECTED"
    /\ sockets = [s \in SockIds |-> "none"]
    /\ socket = 0
    /\ \E timeout \in TimeoutInputs :
         vadConfig = [sensitivity |-> DefaultSensitivity, autoCalibrate |-> TRUE,
                      timeout |-> timeout]
    /\ audioContext = "null"
    /\ analyser = FALSE
    /\ call = [s \in Slots |-> "free"]
    /\ streams = {}
    /\ mediaStream = 0
    /\ recorders = [s \in Slots |-> "inactive"]
    /\ mediaRecorder = 0
    /\ audioChunks = 0
    /\ intervals = {}
    /\ vadIntervalId = 0
    /\ timers = {}
    /\ silenceTimeout = 0
    /\ voiceDetected = FALSE
    /\ speechDuration = ElapsedCap          \* recordingStartTime = 0
    /\ restartTimers = <<>>
    /\ pendingAudio = 0
    /\ out = <<>>
    /\ stopRequested = FALSE

\* -------------------------------------------------------- socket listeners

\* what a listener does to the status and emits
onConnect(cur) ==
    LET st == setStatus(cur, "IDLE")
    IN [status |-> st.status,
        emitted |-> (IF socket # 0 THEN <<Wire("handshake", socket)>> ELSE <<>>)
                    \o st.emitted \o <<Ev("event", "connected")>>]
onDisconnect(cur) ==
    LET st == setStatus(cur, "DISCONNECTED")
    IN [status |-> st.status, emitted |-> st.emitted \o <<Ev("event", "disconnected")>>]
onStatus(cur, v) ==
    IF v = "thinking" THEN setStatus(cur, "THINKING")
    ELSE IF v = "idle" THEN setStatus(cur, "IDLE")
    ELSE [status |-> cur, emitted |-> <<>>]
onAuthErrorKeepStatus(cur) ==
    [status |-> cur, emitted |-> <<Ev("event", "error")>>]
onAuthError(cur) ==
    LET st == setStatus(cur, "DISCONNECTED")
    IN [status |-> st.status, emitted |-> st.emitted \o <<Ev("event", "error")>>]
onConnectError(cur) ==
    LET st == setStatus(cur, "DISCONNECTED")
    IN [status |-> st.status, emitted |-> st.emitted \o <<Ev("event", "error")>>]

\* ------------------------------------------------------------ public API

\* io(): a new socket object.  connect() does not close a socket it replaces,
\* which keeps its listeners.  In Connect the replaced socket never reports
\* anything again (its number is reused); in ConnectLeavingSocket it goes on
\* connecting.
FreeSockIds == {i \in SockIds : sockets[i] = "none"}
NewSockId == IF socket # 0 THEN socket ELSE FirstFree(FreeSockIds)

\* connect()
ConnectWhenNoSocket ==
    /\ IF socket # 0
       THEN UNCHANGED <<status, socketVars>> /\ out' = <<Warn("already connected")>>
       ELSE LET s == setStatus(status, "CONNECTING")
                id == NewSockId
            IN /\ status' = s.status
               /\ out' = s.emitted
               /\ sockets' = [sockets EXCEPT ![id] = "connecting"]
               /\ socket' = id
    /\ UNCHANGED <<vadConfig, audioVars, call, captureVars, audioChunks, vadVars,
                   restartTimers, pendingAudio, stopRequested>>
Connect ==
    /\ IF isConnected
       THEN UNCHANGED <<status, socketVars>> /\ out' = <<Warn("already connected")>>
       ELSE LET s == setStatus(status, "CONNECTING")
                id == NewSockId
            IN /\ status' = s.status
               /\ out' = s.emitted
               /\ sockets' = [sockets EXCEPT ![id] = "connecting"]
               /\ socket' = id
    /\ UNCHANGED <<vadConfig, audioVars, call, captureVars, audioChunks, vadVars,
                   restartTimers, pendingAudio, stopRequested>>

\* connect() while the socket of an earlier connect() is still connecting (or
\* reconnecting); the earlier socket stays alive
ConnectLeavingSocket ==
    /\ socket # 0
    /\ sockets[socket] = "connecting"
    /\ FreeSockIds # {}
    /\ LET s == setStatus(status, "CONNECTING")
           id == FirstFree(FreeSockIds)
       IN /\ status' = s.status
          /\ out' = s.emitted
          /\ sockets' = [sockets EXCEPT ![id] = "connecting"]
          /\ socket' = id
    /\ UNCHANGED <<vadConfig, audioVars, call, captureVars, audioChunks, vadVars,
                   restartTimers, pendingAudio, stopRequested>>

\* disconnect(): socket.disconnect() on a connected socket runs the
\* 'disconnect' listener before it returns
Disconnect ==
    /\ SetCapture(stopListening(Capture))
    /\ LET heard == IF isConnected THEN onDisconnect(status)
                    ELSE [status |-> status, emitted |-> <<>>]
           st == setStatus(heard.status, "DISCONNECTED")
       IN /\ status' = st.status
          /\ out' = heard.emitted \o st.emitted
    /\ sockets' = IF socket # 0 THEN [sockets EXCEPT ![socket] = "none"] ELSE sockets
    /\ socket' = 0
    /\ UNCHANGED <<vadConfig, audioVars, call, audioChunks, vadVars, restartTimers,
                   pendingAudio, stopRequested>>

\* what a startListening() invocation does before its first await
startListening ==
    IF ~isConnected THEN call
    ELSE IF status = "LISTENING" THEN call
    ELSE [call EXCEPT ![FirstFree(FreeSlots)] = "acquiring"]

StartAccepted == isConnected /\ status # "LISTENING"
startListeningWarns ==
    IF ~isConnected THEN <<Warn("not connected")>>
    ELSE IF status = "LISTENING" THEN <<Warn("already listening")>>
    ELSE <<>>
Tokens == Cardinality(Slots \ FreeSlots) + Len(restartTimers) + pendingAudio

\* startListening() called by the host
StartListening ==
    /\ StartAccepted => (FreeSlots # {} /\ Tokens < MaxCalls)
    /\ call' = startListening
    /\ out' = startListeningWarns
    /\ stopRequested' = FALSE
    /\ UNCHANGED <<status, socketVars, vadConfig, audioVars, captureVars, audioChunks,
                   vadVars, restartTimers, pendingAudio>>

\* setTimeout(() => this.startListening(), 500) expires
AutoRestartDropped ==
    /\ restartTimers # <<>>
    /\ Head(restartTimers) = 0
    /\ restartTimers' = Tail(restartTimers)
    /\ out' = <<>>
    /\ UNCHANGED <<status, socketVars, vadConfig, audioVars, call, captureVars, audioChunks,
                   vadVars, pendingAudio, stopRequested>>
AutoRestart ==
    /\ restartTimers # <<>>
    /\ Head(restartTimers) = 0
    /\ StartAccepted => FreeSlots # {}
    /\ restartTimers' = Tail(restartTimers)
    /\ call' = startListening
    /\ out' = startListeningWarns
    /\ UNCHANGED <<status, socketVars, vadConfig, audioVars, captureVars, audioChunks,
                   vadVars, pendingAudio, stopRequested>>

\* startListening() from createAnalyser() to setInterval()
ListenBody(s) ==
    /\ analyser' = TRUE
    /\ voiceDetected' = FALSE
    /\ speechDuration' = ElapsedCap
    /\ recorders' = [recorders EXCEPT ![s] = "recording"]
    /\ mediaRecorder' = s
    /\ audioChunks' = 0
    /\ LET st == setStatus(status, "LISTENING")
       IN status' = st.status /\ out' = st.emitted
    /\ intervals' = intervals \cup {s}
    /\ vadIntervalId' = s
    /\ call' = [call EXCEPT ![s] = "free"]

\* getUserMedia() resolves and startListening() runs to its end.  The
\* AudioContext is taken to be running when created (audioContext.state is
\* never 'suspended'), so the call does not wait for resume().
GetUserMediaResolve(s) ==
    /\ call[s] = "acquiring"
    /\ streams' = streams \cup {s}
    /\ mediaStream' = s
    /\ audioContext' = "running"
    /\ ListenBody(s)
    /\ UNCHANGED <<socketVars, vadConfig, timers, silenceTimeout, restartTimers,
                   pendingAudio, stopRequested>>

\* getUserMedia() rejects: the catch block
GetUserMediaRejectKeepStatus(s) ==
    /\ call[s] = "acquiring"
    /\ call' = [call EXCEPT ![s] = "free"]
    /\ out' = <<Ev("event", "error")>>
    /\ UNCHANGED <<status, socketVars, vadConfig, audioVars, captureVars, audioChunks,
                   vadVars, restartTimers, pendingAudio, stopRequested>>
GetUserMediaReject(s) ==
    /\ call[s] = "acquiring"
    /\ call' = [call EXCEPT ![s] = "free"]
    /\ LET st == setStatus(status, "IDLE")
       IN status' = st.status /\ out' = <<Ev("event", "error")>> \o st.emitted
    /\ UNCHANGED <<socketVars, vadConfig, audioVars, captureVars, audioChunks, vadVars,
                   restartTimers, pendingAudio, stopRequested>>

\* stopListening() called by the host
StopListening ==
    /\ SetCapture(stopListening(Capture))
    /\ out' = <<>>
    /\ stopRequested' = (\A s \in Slots : call[s] = "free")
    /\ UNCHANGED <<status, socketVars, vadConfig, audioVars, call, audioChunks, vadVars,
                   restartTimers, pendingAudio>>

\* sendText(text)
SendTextUnguarded ==
    /\ out' = <<Wire("text_input", socket)>>
    /\ UNCHANGED <<client, stopRequested>>
SendText ==
    /\ out' = IF ~isConnected THEN <<Warn("not connected")>>
              ELSE <<Wire("text_input", socket)>>
    /\ UNCHANGED <<client, stopRequested>>

\* updateSettings(settings) called by the host
UpdateSettings(set) ==
    /\ vadConfig' = updateSettings(vadConfig, set)
    /\ out' = <<>>
    /\ UNCHANGED <<status, socketVars, audioVars, call, captureVars, audioChunks, vadVars,
                   restartTimers, pendingAudio, stopRequested>>

\* ------------------------------------------------------- VAD and finalize

\* detectVoiceActivity with the energy the analyser reads; `blocked` is the
\* model running out of timer objects
detectVoiceActivityNoPendingCheck(average) ==
    LET th == getVadThresholds(vadConfig, calibratedNoiseFloor)
        voice == average > th.voiceThreshold
        vd1 == IF voice THEN TRUE ELSE voiceDetected
        sd1 == IF voice /\ ~voiceDetected THEN 0 ELSE speechDuration
        st1 == IF voice THEN 0 ELSE silenceTimeout
        tm1 == IF voice THEN {t \in timers : t.id # silenceTimeout} ELSE timers
        start == average < th.silenceThreshold /\ vd1
        free == {i \in TimerIds : i \notin {t.id : t \in tm1} /\ i # st1}
        id == IF free = {} THEN 0 ELSE FirstFree(free)
    IN [voiceDetected |-> vd1,
        speechDuration |-> sd1,
        silenceTimeout |-> IF start THEN id ELSE st1,
        timers |-> IF start THEN tm1 \cup {[id |-> id, remaining |-> vadConfig.timeout,
                                          length |-> vadConfig.timeout]}
                   ELSE tm1,
        blocked |-> start /\ free = {}]
detectVoiceActivityCancelOnFirstVoice(average) ==
    LET th == getVadThresholds(vadConfig, calibratedNoiseFloor)
        voice == average > th.voiceThreshold
        first == voice /\ ~voiceDetected
        vd1 == IF voice THEN TRUE ELSE voiceDetected
        sd1 == IF first THEN 0 ELSE speechDuration
        st1 == IF first THEN 0 ELSE silenceTimeout
        tm1 == IF first THEN {t \in timers : t.id # silenceTimeout} ELSE timers
        start == average < th.silenceThreshold /\ vd1 /\ st1 = 0
        free == {i \in TimerIds : i \notin {t.id : t \in tm1} /\ i # st1}
        id == IF free = {} THEN 0 ELSE FirstFree(free)
    IN [voiceDetected |-> vd1,
        speechDuration |-> sd1,
        silenceTimeout |-> IF start THEN id ELSE st1,
        timers |-> IF start THEN tm1 \cup {[id |-> id, remaining |-> vadConfig.timeout,
                                          length |-> vadConfig.timeout]}
                   ELSE tm1,
        blocked |-> start /\ free = {}]
detectVoiceActivity(average) ==
    LET th == getVadThresholds(vadConfig, calibratedNoiseFloor)
        voice == average > th.voiceThreshold
        vd1 == IF voice THEN TRUE ELSE voiceDetected
        sd1 == IF voice /\ ~voiceDetected THEN 0 ELSE speechDuration
        st1 == IF voice THEN 0 ELSE silenceTimeout
        tm1 == IF voice THEN {t \in timers : t.id # silenceTimeout} ELSE timers
        start == average < th.silenceThreshold /\ vd1 /\ st1 = 0
        free == {i \in TimerIds : i \notin {t.id : t \in tm1} /\ i # st1}
        id == IF free = {} THEN 0 ELSE FirstFree(free)
    IN [voiceDetected |-> vd1,
        speechDuration |-> sd1,
        silenceTimeout |-> IF start THEN id ELSE st1,
        timers |-> IF start THEN tm1 \cup {[id |-> id, remaining |-> vadConfig.timeout,
                                          length |-> vadConfig.timeout]}
                   ELSE tm1,
        blocked |-> start /\ free = {}]

Recording == mediaRecorder # 0 /\ recorders[mediaRecorder] = "recording"

\* a setInterval callback while this.mediaRecorder is recording
VadTick(i, average) ==
    /\ i \in intervals
    /\ Recording
    /\ IF ~analyser
       THEN UNCHANGED <<vadVars, silenceTimeout, timers>>
       ELSE LET d == detectVoiceActivity(average)
            IN /\ ~d.blocked
               /\ voiceDetected' = d.voiceDetected
               /\ speechDuration' = d.speechDuration
               /\ silenceTimeout' = d.silenceTimeout
               /\ timers' = d.timers
    /\ out' = <<>>
    /\ UNCHANGED <<status, socketVars, vadConfig, audioVars, call, streams, mediaStream,
                   recorders, mediaRecorder, audioChunks, intervals, vadIntervalId,
                   restartTimers, pendingAudio, stopRequested>>

\* a setInterval callback while this.mediaRecorder is not recording
VadTickIdle(i) ==
    /\ i \in intervals
    /\ ~Recording
    /\ out' = <<>>
    /\ UNCHANGED <<client, stopRequested>>

\* the silence timer's callback
SilenceTimerFireLongerThan(t) ==
    /\ t \in timers
    /\ t.remaining = 0
    /\ IF speechDuration > MIN_SPEECH_DURATION
       THEN /\ SetCapture(stopListening([Capture EXCEPT !.timers = timers \ {t}]))
            /\ UNCHANGED voiceDetected
       ELSE /\ voiceDetected' = FALSE
            /\ silenceTimeout' = 0
            /\ timers' = timers \ {t}
            /\ UNCHANGED <<vadIntervalId, intervals, mediaRecorder, recorders,
                           mediaStream, streams>>
    /\ out' = <<>>
    /\ UNCHANGED <<status, socketVars, vadConfig, audioVars, call, audioChunks,
                   speechDuration, restartTimers, pendingAudio, stopRequested>>
SilenceTimerFire(t) ==
    /\ t \in timers
    /\ t.remaining = 0
    /\ IF speechDuration >= MIN_SPEECH_DURATION
       THEN /\ SetCapture(stopListening([Capture EXCEPT !.timers = timers \ {t}]))
            /\ UNCHANGED voiceDetected
       ELSE /\ voiceDetected' = FALSE
            /\ silenceTimeout' = 0
            /\ timers' = timers \ {t}
            /\ UNCHANGED <<vadIntervalId, intervals, mediaRecorder, recorders,
                           mediaStream, streams>>
    /\ out' = <<>>
    /\ UNCHANGED <<status, socketVars, vadConfig, audioVars, call, audioChunks,
                   speechDuration, restartTimers, pendingAudio, stopRequested>>

\* the test of handleRecordingStop
validSpeechLongerThan(vd, size, duration) ==
    vd /\ size > MinBlobSize /\ duration > MIN_SPEECH_DURATION
validSpeech(vd, size, duration) ==
    vd /\ size > MinBlobSize /\ duration >= MIN_SPEECH_DURATION

\* the recorder's stop task: ondataavailable, then onstop = handleRecordingStop
\* up to its await
RecorderStop(s, size) ==
    /\ recorders[s] = "stopping"
    /\ recorders' = [recorders EXCEPT ![s] = "inactive"]
    /\ LET chunks == IF size > 0 THEN Min(audioChunks + size, BlobCap) ELSE audioChunks
       IN /\ audioChunks' = chunks
          /\ IF validSpeech(voiceDetected, chunks, speechDuration)
             THEN /\ LET st == setStatus(status, "THINKING")
                     IN status' = st.status /\ out' = st.emitted
                  /\ pendingAudio' = pendingAudio + 1
                  /\ UNCHANGED restartTimers
             ELSE /\ LET st == setStatus(status, "IDLE")
                     IN status' = st.status /\ out' = st.emitted
                  /\ restartTimers' = Append(restartTimers, RestartDelay)
                  /\ UNCHANGED pendingAudio
    /\ UNCHANGED <<socketVars, vadConfig, audioVars, call, streams, mediaStream,
                   mediaRecorder, intervals, vadIntervalId, timers, silenceTimeout,
                   vadVars, stopRequested>>

\* handleRecordingStop after audioBlob.arrayBuffer() resolves
AudioInputSend ==
    /\ pendingAudio > 0
    /\ pendingAudio' = pendingAudio - 1
    /\ out' = IF socket # 0 THEN <<Wire("audio_input", socket)>> ELSE <<>>
    /\ UNCHANGED <<status, socketVars, vadConfig, audioVars, call, captureVars,
                   audioChunks, vadVars, restartTimers, stopRequested>>

\* 100 ms pass
Dec(n) == IF n > 0 THEN n - 1 ELSE 0
Advance ==
    /\ timers' = {[t EXCEPT !.remaining = Dec(t.remaining)] : t \in timers}
    /\ restartTimers' = [k \in DOMAIN restartTimers |-> Dec(restartTimers[k])]
    /\ speechDuration' = Min(speechDuration + 1, ElapsedCap)
    /\ out' = <<>>
    /\ UNCHANGED <<status, socketVars, vadConfig, audioVars, call, streams, mediaStream,
                   recorders, mediaRecorder, audioChunks, intervals, vadIntervalId,
                   silenceTimeout, voiceDetected, pendingAudio, stopRequested>>

\* ------------------------------------------------------------ socket events

Listener(r) ==
    /\ status' = r.status
    /\ out' = r.emitted
    /\ UNCHANGED <<socket, audioVars, call, captureVars, audioChunks, vadVars,
                   restartTimers, pendingAudio, stopRequested>>

\* the channel of socket s is established (first connect or reconnect)
SocketConnect(s) ==
    /\ sockets[s] = "connecting"
    /\ sockets' = [sockets EXCEPT ![s] = "connected"]
    /\ Listener(onConnect(status))
    /\ UNCHANGED vadConfig

\* the channel of socket s is lost
SocketDisconnect(s) ==
    /\ sockets[s] = "connected"
    /\ sockets' = [sockets EXCEPT ![s] = "connecting"]
    /\ Listener(onDisconnect(status))
    /\ UNCHANGED vadConfig

\* a connection attempt of socket s fails
SocketConnectError(s) ==
    /\ sockets[s] = "connecting"
    /\ Listener(onConnectError(status))
    /\ UNCHANGED <<sockets, vadConfig>>

\* inbound status{status}
InboundStatus(s, v) ==
    /\ sockets[s] = "connected"
    /\ Listener(onStatus(status, v))
    /\ UNCHANGED <<sockets, vadConfig>>

\* inbound set_settings
InboundSetSettings(s, set) ==
    /\ sockets[s] = "connected"
    /\ vadConfig' = updateSettings(vadConfig, set)
    /\ Listener([status |-> status, emitted |-> <<Ev("event", "settings")>>])
    /\ UNCHANGED sockets

\* inbound auth_error
InboundAuthError(s) ==
    /\ sockets[s] = "connected"
    /\ Listener(onAuthError(status))
    /\ UNCHANGED <<sockets, vadConfig>>

Next ==
    \/ Connect
    \/ Disconnect
    \/ StartListening
    \/ AutoRestart
    \/ \E s \in Slots : GetUserMediaResolve(s)
    \/ \E s \in Slots : GetUserMediaReject(s)
    \/ StopListening
    \/ SendText
    \/ \E set \in SettingsInputs : UpdateSettings(set)
    \/ \E i \in Slots, average \in Energies : VadTick(i, average)
    \/ \E i \in Slots : VadTickIdle(i)
    \/ \E t \in timers : SilenceTimerFire(t)
    \/ \E s \in Slots, size \in ChunkSizes : RecorderStop(s, size)
    \/ AudioInputSend
    \/ Advance
    \/ \E s \in SockIds : SocketConnect(s)
    \/ \E s \in SockIds : SocketDisconnect(s)
    \/ \E s \in SockIds : SocketConnectError(s)
    \/ \E s \in SockIds, v \in StatusInputs : InboundStatus(s, v)
    \/ \E s \in SockIds, set \in SettingsInputs : InboundSetSettings(s, set)
    \/ \E s \in SockIds : InboundAuthError(s)

Spec == Init /\ [][Next]_vars

\* the connection alone, with sockets that connect() replaced staying alive
NextSockets ==
    \/ Connect
    \/ ConnectLeavingSocket
    \/ Disconnect
    \/ SendText
    \/ \E s \in SockIds : SocketConnect(s)
    \/ \E s \in SockIds : SocketDisconnect(s)
    \/ \E s \in SockIds : SocketConnectError(s)
    \/ \E s \in SockIds, v \in StatusInputs : InboundStatus(s, v)
    \/ \E s \in SockIds, set \in SettingsInputs : InboundSetSettings(s, set)
    \/ \E s \in SockIds : InboundAuthError(s)

SocketSpec == Init /\ [][NextSockets]_vars

\* the client left to itself during a capture: the channel stays connected,
\* the host calls nothing and the microphone is granted.  The first state is
\* the one after connect(), the handshake, startListening() and getUserMedia.
InitListening ==
    /\ status = "LISTENING"
    /\ sockets = [s \in SockIds |-> IF s = 1 THEN "connected" ELSE "none"]
    /\ socket = 1
    /\ \E timeout \in TimeoutInputs :
         vadConfig = [sensitivity |-> DefaultSensitivity, autoCalibrate |-> TRUE,
                      timeout |-> timeout]
    /\ audioContext = "running"
    /\ analyser = TRUE
    /\ call = [s \in Slots |-> "free"]
    /\ streams = {1}
    /\ mediaStream = 1
    /\ recorders = [s \in Slots |-> IF s = 1 THEN "recording" ELSE "inactive"]
    /\ mediaRecorder = 1
    /\ audioChunks = 0
    /\ intervals = {1}
    /\ vadIntervalId = 1
    /\ timers = {}
    /\ silenceTimeout = 0
    /\ voiceDetected = FALSE
    /\ speechDuration = ElapsedCap
    /\ restartTimers = <<>>
    /\ pendingAudio = 0
    /\ out = <<>>
    /\ stopRequested = FALSE

NextCallbacks ==
    \/ \E i \in Slots, average \in Energies : VadTick(i, average)
    \/ \E t \in timers : SilenceTimerFire(t)
    \/ \E s \in Slots, size \in ChunkSizes : RecorderStop(s, size)
    \/ AudioInputSend
    \/ AutoRestart
    \/ \E s \in Slots : GetUserMediaResolve(s)
    \/ Advance
    \/ \E s \in SockIds, v \in StatusInputs : InboundStatus(s, v)
    \/ \E s \in SockIds, set \in SettingsInputs : InboundSetSettings(s, set)

\* time passes, a timer that is due runs its callback, getUserMedia resolves
RestartSpec ==
    /\ InitListening
    /\ [][NextCallbacks]_vars
    /\ WF_vars(Advance)
    /\ WF_vars(AutoRestart)
    /\ \A s \in Slots : WF_vars(GetUserMediaResolve(s))

\* getVadThresholds on its own: any configuration, any energy
InitThresholds ==
    /\ Init
    /\ vadConfig \in [sensitivity : Sensitivities, autoCalibrate : BOOLEAN,
                       timeout : TimeoutInputs]

\* const { silenceThreshold, voiceThreshold } = this.getVadThresholds()
GetVadThresholds ==
    /\ out' = <<Ev("thresholds", getVadThresholds(vadConfig, calibratedNoiseFloor))>>
    /\ UNCHANGED <<client, stopRequested>>

\* where detectVoiceActivity places an energy reading
ClassifyEnergy(average) ==
    /\ out' = <<Ev("energy",
                   energyClass(average, getVadThresholds(vadConfig, calibratedNoiseFloor)))>>
    /\ UNCHANGED <<client, stopRequested>>

NextThresholds ==
    \/ GetVadThresholds
    \/ \E average \in EnergyLevels : ClassifyEnergy(average)
    \/ \E set \in ThresholdSettings : UpdateSettings(set)

ThresholdSpec == InitThresholds /\ [][NextThresholds]_vars

\* ================================================================ claims

RecordingRecorders == {s \in Slots : recorders[s] = "recording"}
StatusEvents(o) == SelectSeq(o, LAMBDA e : e.k = "status")
EventsNamed(o, name) == SelectSeq(o, LAMBDA e : e.k = "event" /\ e.v = name)
WiresNamed(o, name) == SelectSeq(o, LAMBDA e : e.k = "wire" /\ e.v = name)

\* C1: whenever a sampling schedule is active and its tick would evaluate
\* energy (this.mediaRecorder is recording), status is LISTENING.
C1_SamplingOnlyWhileListening ==
    (intervals # {} /\ Recording) => status = "LISTENING"

\* C2: at most one stream, one recording recorder and one sampling schedule
\* exist, and each is the one the client holds a reference to.
C2_AtMostOneCaptureSession ==
    /\ Cardinality(streams) <= 1
    /\ Cardinality(RecordingRecorders) <= 1
    /\ Cardinality(intervals) <= 1
    /\ streams \subseteq {mediaStream}
    /\ RecordingRecorders \subseteq {mediaRecorder}
    /\ intervals \subseteq {vadIntervalId}

Finalize == \E s \in Slots, size \in ChunkSizes : RecorderStop(s, size)

\* C3 as claimed: a finalize with voice detected, more than 2000 bytes and at
\* least 400 ms of speech sets THINKING and exactly one audio_input is
\* transmitted for it; any other finalize transmits nothing, sets IDLE and
\* schedules one startListening() 500 ms later.
C3_FinalizeAlwaysTransmits ==
    [][ /\ Finalize =>
             /\ WiresNamed(out', "audio_input") = <<>>
             /\ IF voiceDetected /\ audioChunks' > MinBlobSize
                   /\ speechDuration >= MIN_SPEECH_DURATION
                THEN /\ status' = "THINKING"
                     /\ pendingAudio' = pendingAudio + 1
                     /\ restartTimers' = restartTimers
                ELSE /\ status' = "IDLE"
                     /\ pendingAudio' = pendingAudio
                     /\ restartTimers' = Append(restartTimers, RestartDelay)
        /\ AudioInputSend => Len(WiresNamed(out', "audio_input")) = 1
      ]_vars

\* C3 amended: as above, but the audio_input of a valid finalize is written
\* to the socket the client holds once the audio bytes are read, and nothing
\* is transmitted when it holds none by then (disconnect() was called).
C3_FinalizeDecision ==
    [][ /\ Finalize =>
             /\ WiresNamed(out', "audio_input") = <<>>
             /\ IF voiceDetected /\ audioChunks' > MinBlobSize
                   /\ speechDuration >= MIN_SPEECH_DURATION
                THEN /\ status' = "THINKING"
                     /\ pendingAudio' = pendingAudio + 1
                     /\ restartTimers' = restartTimers
                ELSE /\ status' = "IDLE"
                     /\ pendingAudio' = pendingAudio
                     /\ restartTimers' = Append(restartTimers, RestartDelay)
        /\ AudioInputSend =>
             /\ pendingAudio' = pendingAudio - 1
             /\ out' = IF socket # 0 THEN <<Wire("audio_input", socket)>> ELSE <<>>
      ]_vars

\* a valid utterance was finalized and its audio is being read
C3_Witness ==
    /\ status = "THINKING"
    /\ pendingAudio = 1
    /\ voiceDetected
    /\ audioChunks > MinBlobSize
    /\ speechDuration >= MIN_SPEECH_DURATION
    /\ out = <<StatusEv("THINKING")>>

\* C4: after the host's stopListening(), and until the host calls
\* startListening() again, the stream, the recorder and the sampling schedule
\* the client holds are not active.
C4_StoppedStaysStopped ==
    stopRequested => (mediaStream = 0 /\ ~Recording /\ vadIntervalId = 0)

\* C5: when stopListening() returns, no sampling schedule and no silence
\* timer is pending.
C5_StopCancelsEverySchedule ==
    [][StopListening => (intervals' = {} /\ timers' = {})]_vars

\* C6: at most one silence timer is pending.
C6_AtMostOneSilenceTimer == Cardinality(timers) <= 1

\* a silence timer is pending and the client holds its handle
C6_Witness == \E t \in timers : t.id = silenceTimeout /\ t.remaining > 0

\* C7: a step emits a status event exactly when it changes the status, and
\* the event carries the new value.
C7_StatusEventsOnlyOnChange ==
    [][ StatusEvents(out') =
          IF status' # status THEN <<StatusEv(status')>> ELSE <<>> ]_vars

\* DISCONNECTED was set again (a second connection failure): an error event
\* and no status event
C7_Witness == status = "DISCONNECTED" /\ out = <<Ev("event", "error")>>

\* C8: a second stopListening() right after a first stops no recorder,
\* releases no stream and changes nothing; the two together stop the
\* recorder and release the stream at most once; with nothing to cancel,
\* stop or release the first changes nothing either.
C8_StopListeningIdempotent ==
    LET r1 == stopListening(Capture)
        r2 == stopListening(r1)
        same(a, b) == \A f \in DOMAIN Capture : a[f] = b[f]
    IN /\ r2.stops = 0
       /\ r2.released = 0
       /\ same(r2, r1)
       /\ (vadIntervalId = 0 /\ silenceTimeout = 0 /\ ~Recording /\ mediaStream = 0)
            => (same(r1, Capture) /\ r1.stops = 0 /\ r1.released = 0)
       /\ (Recording => r1.stops = 1) /\ (mediaStream # 0 => r1.released = 1)

\* the host stopped an active capture: its recorder waits for the stop event
C8_Witness ==
    /\ stopRequested
    /\ mediaRecorder # 0
    /\ recorders[mediaRecorder] = "stopping"
    /\ vadIntervalId = 0
    /\ mediaStream = 0

\* C9 as claimed: connect() leaves status CONNECTING whatever it was.
C9_ConnectAlwaysConnecting == [][Connect => status' = "CONNECTING"]_vars

\* C9 amended: connect() leaves status CONNECTING whatever it was, unless the
\* socket is connected; then it changes nothing.
C9_ConnectUnlessConnected ==
    [][ Connect =>
          IF isConnected
          THEN UNCHANGED client /\ out' = <<Warn("already connected")>>
          ELSE status' = "CONNECTING" /\ socket' # 0 ]_vars

\* connect() was called with status IDLE and no socket (a finalize after
\* disconnect() had set IDLE)
C9_Witness ==
    /\ status = "CONNECTING"
    /\ out = <<StatusEv("CONNECTING")>>
    /\ restartTimers # <<>>

\* C10: an auth_error message or a connection failure leaves status
\* DISCONNECTED and emits exactly one error event; a channel loss leaves
\* status DISCONNECTED and emits disconnected.
C10_ErrorsDisconnect ==
    [][ /\ ((\E s \in SockIds : InboundAuthError(s))
            \/ (\E s \in SockIds : SocketConnectError(s)))
           => (status' = "DISCONNECTED" /\ Len(EventsNamed(out', "error")) = 1)
        /\ (\E s \in SockIds : SocketDisconnect(s))
           => (status' = "DISCONNECTED" /\ Len(EventsNamed(out', "disconnected")) = 1)
      ]_vars

\* an auth_error arrived while a capture was recording
C10_Witness ==
    /\ status = "DISCONNECTED"
    /\ out = <<StatusEv("DISCONNECTED"), Ev("event", "error")>>
    /\ Recording
    /\ isConnected

\* C11: when getUserMedia() rejects, the startListening() call emits exactly
\* one error event, leaves status IDLE and ends: it starts no recorder, no
\* sampling schedule and no timer, holds no stream, and LISTENING is not set.
C11_MicrophoneFailure ==
    [][ \A s \in Slots : GetUserMediaReject(s) =>
          /\ Len(EventsNamed(out', "error")) = 1
          /\ status' = "IDLE"
          /\ call'[s] = "free"
          /\ UNCHANGED <<captureVars, audioVars, audioChunks, vadVars, restartTimers,
                         pendingAudio, socketVars>>
      ]_vars

\* the microphone was refused to a call that waited for it while the server
\* reported thinking: error, then the status change to IDLE
C11_Witness ==
    /\ status = "IDLE"
    /\ out = <<Ev("event", "error"), StatusEv("IDLE")>>

\* C12: startListening() while not connected or while LISTENING, and
\* sendText() while not connected, change nothing of the client, write no
\* message and emit no event (they only warn on the console).
C12_InvalidCallsAreNoOps ==
    [][ /\ ((StartListening \/ AutoRestart) /\ ~StartAccepted) =>
             /\ UNCHANGED <<status, socketVars, vadConfig, audioVars, call, captureVars,
                            audioChunks, vadVars, pendingAudio>>
             /\ \A i \in DOMAIN out' : out'[i].k = "warn"
        /\ (SendText /\ ~isConnected) =>
             /\ UNCHANGED client
             /\ \A i \in DOMAIN out' : out'[i].k = "warn"
      ]_vars

\* startListening() was called during a capture and returned at its guard
C12_Witness ==
    /\ out = <<Warn("already listening")>>
    /\ status = "LISTENING"
    /\ Recording
    /\ vadIntervalId \in intervals

\* C13: when the silence timer expires, with speechDuration >= 400 ms the
\* capture the client holds is stopped (recorder, stream, sampling schedule);
\* otherwise voice-detected and the timer handle are cleared, the recorder,
\* the stream and the sampling schedule are left running and the status is
\* left as it is.
C13_SilenceTimerExpiry ==
    [][ \A t \in timers : SilenceTimerFire(t) =>
          IF speechDuration >= MIN_SPEECH_DURATION
          THEN /\ ~Recording'
               /\ Recording => recorders'[mediaRecorder] = "stopping"
               /\ mediaStream' = 0 /\ mediaStream \notin streams'
               /\ vadIntervalId' = 0 /\ vadIntervalId \notin intervals'
               /\ silenceTimeout' = 0
          ELSE /\ voiceDetected' = FALSE
               /\ silenceTimeout' = 0
               /\ t \notin timers'
               /\ UNCHANGED <<recorders, mediaRecorder, streams, mediaStream, intervals,
                              vadIntervalId, status>>
      ]_vars

\* a noise blip: the timer expired less than 400 ms after the voice began, the
\* flag was cleared and the capture goes on in LISTENING
C13_Witness ==
    /\ ~voiceDetected
    /\ speechDuration < MIN_SPEECH_DURATION
    /\ silenceTimeout = 0
    /\ timers = {}
    /\ Recording
    /\ vadIntervalId \in intervals
    /\ status = "LISTENING"

\* C14: every channel establishment writes exactly one handshake, to the
\* socket whose channel it is and before anything else, then sets status
\* IDLE, then emits connected.
C14_HandshakeOnEveryChannel ==
    [][ \A s \in SockIds : SocketConnect(s) =>
          /\ out' = <<Wire("handshake", s)>>
                       \o (IF status # "IDLE" THEN <<StatusEv("IDLE")>> ELSE <<>>)
                       \o <<Ev("event", "connected")>>
          /\ status' = "IDLE"
      ]_vars

\* C15: with autoCalibrate off and a sensitivity in 1..10, silenceThreshold
\* = max(5, 35 - 3 * sensitivity) >= 5 and voiceThreshold = silenceThreshold
\* + 5; with autoCalibrate on (noise floor 10) they are 25 and 30; always
\* silenceThreshold < voiceThreshold, and an energy is voice above the one,
\* silence below the other.
C15_Thresholds ==
    LET th == getVadThresholds(vadConfig, calibratedNoiseFloor)
        sens == vadConfig.sensitivity
    IN /\ (~vadConfig.autoCalibrate /\ sens \in 1..10) =>
            /\ th.silenceThreshold = Max(5, 35 - 3 * sens)
            /\ th.voiceThreshold = th.silenceThreshold + 5
            /\ th.silenceThreshold >= 5
       /\ vadConfig.autoCalibrate =>
            (th.silenceThreshold = 25 /\ th.voiceThreshold = 30)
       /\ th.silenceThreshold < th.voiceThreshold
       /\ \A i \in DOMAIN out :
            /\ out[i].k = "thresholds" => out[i].v = th
            /\ out[i].k = "energy" =>
                 \A average \in EnergyLevels :
                    out[i].v = energyClass(average, th) =>
                      /\ out[i].v = "voice" <=> average > th.silenceThreshold + 5
                      /\ out[i].v = "silence" <=> average < th.silenceThreshold

\* the most sensitive setting: the thresholds computed are 5 and 10
C15_Witness ==
    /\ ~vadConfig.autoCalibrate
    /\ vadConfig.sensitivity = 10
    /\ out = <<Ev("thresholds", [silenceThreshold |-> 5, voiceThreshold |-> 10])>>

\* C16: from disconnect() until the host calls connect() (this.socket is null
\* exactly then, and before the first connect()), a recorder-stop, timer or
\* auto-restart callback leaves status DISCONNECTED.
C16_DisconnectedStays ==
    [][ ( /\ socket = 0
          /\ \/ Finalize
             \/ AudioInputSend
             \/ AutoRestart
             \/ \E t \in timers : SilenceTimerFire(t) )
        => status' = "DISCONNECTED" ]_vars

\* C17: whenever a silence timer is pending, voice-detected is true (no
\* session begins, resetting the flag, while an earlier session's timer is
\* pending), and a timer expiry never stops a capture with the flag unset.
C17_TimerBelongsToSession ==
    [][ /\ timers' # {} => voiceDetected'
        /\ \A t \in timers : (SilenceTimerFire(t) /\ ~Recording') => voiceDetected
      ]_vars

TimerIdsOf(ts) == {t.id : t \in ts}

\* C18: a silence timer is created only by a tick that reads energy below
\* silenceThreshold while voice is detected and the client holds no timer,
\* and it runs for vad.timeout; a tick that reads energy above voiceThreshold
\* cancels it; a tick that reads energy between the thresholds changes
\* nothing.  The client holds the handle of every pending timer, so a timer
\* that expires saw no tick above voiceThreshold since it was created.
C18_TimerStartCancelHysteresis ==
    [][ /\ \A i \in Slots, average \in Energies : (VadTick(i, average) /\ analyser) =>
             LET th == getVadThresholds(vadConfig, calibratedNoiseFloor)
             IN /\ average > th.voiceThreshold =>
                     (silenceTimeout' = 0 /\ timers' = {} /\ voiceDetected')
                /\ (average >= th.silenceThreshold /\ average <= th.voiceThreshold) =>
                     UNCHANGED <<voiceDetected, speechDuration, timers, silenceTimeout>>
                /\ average < th.silenceThreshold =>
                     /\ UNCHANGED <<voiceDetected, speechDuration>>
                     /\ IF voiceDetected /\ silenceTimeout = 0
                        THEN timers' = timers \cup {[id |-> silenceTimeout',
                                                     remaining |-> vadConfig.timeout,
                                                     length |-> vadConfig.timeout]}
                             /\ silenceTimeout' # 0
                        ELSE UNCHANGED <<timers, silenceTimeout>>
        /\ ~(TimerIdsOf(timers') \subseteq TimerIdsOf(timers)) =>
             \E i \in Slots, average \in Energies :
                /\ VadTick(i, average)
                /\ average < getVadThresholds(vadConfig, calibratedNoiseFloor).silenceThreshold
                /\ voiceDetected
                /\ timers = {}
        /\ TimerIdsOf(timers') \subseteq {silenceTimeout'}
      ]_vars

\* some time after the voice began, a tick below silenceThreshold has just
\* started the timer
C18_Witness ==
    /\ voiceDetected
    /\ Recording
    /\ speechDuration > 0
    /\ \E t \in timers : t.id = silenceTimeout /\ t.remaining = vadConfig.timeout
    /\ out = <<>>

\* C19: once a finalize without valid speech has scheduled the restart, and
\* with the channel connected, the microphone granted and no host call,
\* status becomes LISTENING again with a new stream, recorder and sampling
\* schedule.
C19_AutoRestartListens ==
    (restartTimers # <<>>) ~>
        ( /\ status = "LISTENING"
          /\ restartTimers = <<>>
          /\ Recording
          /\ mediaStream \in streams
          /\ vadIntervalId \in intervals )

\* the restarted startListening() has just set LISTENING
C19_Witness ==
    /\ status = "LISTENING"
    /\ out = <<StatusEv("LISTENING")>>
    /\ Recording
    /\ mediaStream \in streams
    /\ vadIntervalId \in intervals
    /\ restartTimers = <<>>

\* C20: whenever a silence timer expires, the time since the recorded
\* utterance start is at least the length the timer was created with; a timer
\* created with at least 400 ms stops the capture when it expires and does not
\* take the noise-blip branch; and a capture stopped by the expiry has
\* voice-detected true and speechDuration >= 400 ms.
C20_ExpiryAfterTimerLength ==
    [][ \A t \in timers : SilenceTimerFire(t) =>
          /\ speechDuration >= Min(t.length, ElapsedCap)
          /\ t.length >= MIN_SPEECH_DURATION =>
               (~Recording' /\ mediaStream' = 0 /\ voiceDetected' = voiceDetected)
          /\ (Recording /\ ~Recording') =>
               (voiceDetected /\ speechDuration >= MIN_SPEECH_DURATION)
      ]_vars

====
